---- MODULE Spec2Model ----
(***************************************************************************)
(* Connection lifecycle of api_server.py: the ensure_connection()          *)
(* coroutine serialised by connection_lock, and the connection_keeper()    *)
(* background task, both working on the module-level client,               *)
(* connection_status and last_connection_time (specification Spec); one    *)
(* run of the get_candles_progressive() handler on a connected server      *)
(* (specification SpecFetch); and the place_trade() and                    *)
(* get_payment_info() handlers on a connected server (specification        *)
(* SpecHandlers).                                                          *)
(*                                                                         *)
(* One action is one run of a coroutine between two suspension points      *)
(* (await): asyncio runs such a stretch without interleaving.  The         *)
(* answers of the Quotex client (connect, check_connect) are chosen by the *)
(* environment when the awaited call returns.                              *)
(***************************************************************************)
EXTENDS Integers, Sequences, FiniteSets

VARIABLES
    client,               \* the global client: None or Some(handle)
    connection_status,    \* the global dict {connected, last_error, last_connected}
    last_connection_time, \* the global float: None or Some(t)
    lock_locked,          \* connection_lock._locked
    lock_waiters,         \* connection_lock._waiters, in FIFO order
    pc,                   \* where each ensure_connection() caller is suspended
    kpc,                  \* where connection_keeper() is suspended
    now,                  \* the wall clock read by datetime.now() and time.time()
    call,                 \* per caller: what its current call did and got; kept
                          \* after the call has ended until the next call
                          \* enters the body
    calls,                \* ensure_connection() calls started so far
    constructed,          \* Quotex(...) objects constructed so far
    connect_calls,        \* client.connect() invocations so far
    flawless,             \* TRUE until the session first answers a connect with
                          \* a failure or a probe with anything but True, or
                          \* a call is cancelled
    phase,                \* the server: "serving", "closed" (lifespan shutdown
                          \* has run), "stopped" (the event loop is gone)
    klast,                \* the answer to the probe of the keeper's current
                          \* loop iteration ("none": it has not probed)
    fpc,                  \* where the get_candles_progressive() handler is
    request,              \* its CandleRequest (request.offset is assignable)
    window,               \* the CandleRequest as it was received
    size,                 \* its local size
    timestamp,            \* its local timestamp
    i,                    \* its loop index
    end_from_time,        \* its local end_from_time
    list_candles,         \* its local list_candles
    get_candles_args,     \* the arguments of every client.get_candles() call
                          \* it has made, in order
    received,             \* every candle those calls have returned, in order
    cause,                \* the message of the exception client.get_candles()
                          \* raised, if it did
    response,             \* what the handler gave back
    tpc,                  \* where the place_trade() handler is
    trade_request,        \* its TradeRequest
    buy_result,           \* what its await client.buy() did
    trade_response,       \* what the handler gave back
    ppc,                  \* where the get_payment_info() handler is
    payment_asset,        \* its path parameter asset
    payment_data,         \* what its client.get_payment() returned
    payment_response      \* what the handler gave back

vars == <<client, connection_status, last_connection_time, lock_locked,
          lock_waiters, pc, kpc, now, call, calls, constructed,
          connect_calls, flawless, phase, klast,
          fpc, request, window, size, timestamp, i, end_from_time,
          list_candles, get_candles_args, received, cause, response,
          tpc, trade_request, buy_result, trade_response,
          ppc, payment_asset, payment_data, payment_response>>

\* The state of the place_trade() and get_payment_info() handlers.
hvars == <<tpc, trade_request, buy_result, trade_response,
           ppc, payment_asset, payment_data, payment_response>>

\* The state of the get_candles_progressive() handler.
fvars == <<fpc, request, window, size, timestamp, i, end_from_time,
           list_candles, get_candles_args, received, cause, response>>

\* The connection state, which the handler does not write after line 259.
cvars == <<client, connection_status, last_connection_time, lock_locked,
           lock_waiters, pc, kpc, now, call, calls, constructed,
           connect_calls, flawless, phase, klast>>

(* ------------------------------ bounds --------------------------------- *)

\* Number of tasks that may call ensure_connection() concurrently.
NumCallers == 2

\* Total number of ensure_connection() calls started in one behaviour.
MaxCalls == 2

\* The clock runs from 1 to MaxClock.
MaxClock == 2

Callers == 1..NumCallers

\* request.days ranges over -1..MaxDays.
MaxDays == 1

\* Candles the session hands out in total during one progressive fetch.
MaxCandles == 3

\* The factor of line 264: one loop iteration per hour of history.
HoursPerDay == 24

(* ------------------------------ values --------------------------------- *)

\* Python's None and a present value, for the Optional globals.
None == {}
Some(x) == {x}

\* Text is a sequence of string pieces; concatenation is \o.
Reasons == {<<"r1">>, <<"r2">>}
ExcMsgs == {<<"boom">>}

\* datetime.now().isoformat(): the rendering of the instant t.
Iso(t) == <<"iso", t>>

\* str(e) of an HTTPException: "<status_code>: <detail>".  (Starlette
\* releases whose HTTPException defines no __str__ render it as the empty
\* string; either way the text differs from the detail's reason.)
StrHTTPException(code, detail) == <<code, ": ">> \o detail

\* What an awaited client.connect() can do: return (True, reason),
\* return (False, reason), or raise.
ConnectOutcomes ==
    {[kind |-> "ok", text |-> <<"Websocket connected successfully">>]}
    \cup {[kind |-> "fail", text |-> r] : r \in Reasons}
    \cup {[kind |-> "raise", text |-> m] : m \in ExcMsgs}

\* What an awaited client.check_connect() can do: return True, return
\* False, or raise.
ProbeOutcomes ==
    {[kind |-> "true", text |-> <<>>], [kind |-> "false", text |-> <<>>]}
    \cup {[kind |-> "raise", text |-> m] : m \in ExcMsgs}

\* How a call of ensure_connection() ends.
Returned == [kind |-> "ok", detail |-> <<>>]
HTTP503(detail) == [kind |-> "HTTPException", detail |-> <<"503">> \o detail]
Raised(msg) == [kind |-> "Exception", detail |-> msg]
NoResult == [kind |-> "none", detail |-> <<>>]
Cancelled == [kind |-> "CancelledError", detail |-> <<>>]

\* The CandleRequest fields the handler computes with (the asset is only
\* passed through).  days may be negative; period may be zero or negative.
Days == -1..MaxDays
Periods == {-2, 0, 2, 3}
Offsets == {0, 5}
Requests == [period : Periods, days : Days, offset : Offsets]

\* What get_timestamp_days_ago() may return: an integer read off the clock.
Timestamps == {7, 8}

\* Candles as the session returns them: dicts with six fields.
Candle(t, v) ==
    [time |-> t, open |-> 1, close |-> 1, high |-> 1, low |-> 1, volume |-> v]

\* Three candles: the first two differ in volume only.
Candles == {Candle(1, 1), Candle(1, 2), Candle(2, 1)}

\* The lists one client.get_candles() call may return.
Batches ==
    {<<>>} \cup {<<a>> : a \in Candles} \cup {<<a, b>> : a, b \in Candles}

\* Messages of the exceptions client.get_candles() may raise.
GetCandlesErrors == {<<"boom">>, <<"timed out">>}

\* What an awaited client.get_candles() can do: return a list, return
\* None, or raise.
GetCandlesOutcomes ==
    {[kind |-> "list", candles |-> b, text |-> <<>>] : b \in Batches}
    \cup {[kind |-> "none", candles |-> <<>>, text |-> <<>>]}
    \cup {[kind |-> "raise", candles |-> <<>>, text |-> m] :
               m \in GetCandlesErrors}

\* str(e) of the ZeroDivisionError raised by int % 0.
StrZeroDivisionError == <<"integer modulo by zero">>

\* Lines 289-295: the handler's JSON answer (asset, period and days echo
\* the request).
Answer(unique_candles) ==
    [kind |-> "ok", count |-> Len(unique_candles), candles |-> unique_candles]

\* Variant: the error carries a fixed text in place of str(e).
HTTP500Opaque(detail) ==
    [kind |-> "HTTPException", code |-> 500,
     detail |-> <<"Internal Server Error">>]

\* Line 299: HTTPException(status_code=500, detail=str(e)).
HTTP500(detail) == [kind |-> "HTTPException", code |-> 500, detail |-> detail]

\* Asset names a request may carry.
Assets == {"EURUSD_otc", "XAUUSD"}

\* The TradeRequest bodies POST /trade is called with.
TradeRequests ==
    [amount : {1, 10}, asset : Assets, direction : {"call", "put"},
     duration : {60}]

\* What an awaited client.buy() can do: return (True, buy_info), return
\* (False, ...), or raise.
BuyOutcomes ==
    {[kind |-> "ok", info |-> [id |-> n], text |-> <<>>] : n \in {1, 2}}
    \cup {[kind |-> "false", info |-> None, text |-> <<>>]}
    \cup {[kind |-> "raise", info |-> None, text |-> m] : m \in ExcMsgs}
NoBuy == [kind |-> "none", info |-> None, text |-> <<>>]

\* What client.get_payment() can return: a dict from some assets to their
\* payout data.
PaymentData == UNION {[A -> {70, 90}] : A \in SUBSET Assets}

\* Line 379: HTTPException(status_code=400, detail="Trade failed").
TradeFailed400 ==
    [kind |-> "HTTPException", code |-> 400, detail |-> <<"Trade failed">>]

\* Line 394: HTTPException(status_code=404, detail=f"Asset {asset} not found").
AssetNotFound404(asset) ==
    [kind |-> "HTTPException", code |-> 404,
     detail |-> <<"Asset ", asset, " not found">>]

\* Neither handler is running.
NoHandlers ==
    /\ tpc = "idle"
    /\ trade_request =
           [amount |-> 0, asset |-> "", direction |-> "", duration |-> 0]
    /\ buy_result = NoBuy
    /\ trade_response = NoResult
    /\ ppc = "idle"
    /\ payment_asset = ""
    /\ payment_data = <<>>
    /\ payment_response = NoResult

\* The handler is not running.
NoFetch ==
    /\ fpc = "idle"
    /\ request = [period |-> 0, days |-> 0, offset |-> 0]
    /\ window = request
    /\ size = 0
    /\ timestamp = 0
    /\ i = 0
    /\ end_from_time = 0
    /\ list_candles = <<>>
    /\ get_candles_args = <<>>
    /\ received = <<>>
    /\ cause = None
    /\ response = NoResult

\* No answer from connect() yet.
NoAnswer == [kind |-> "none", text |-> <<>>]

\* The record of one call: whether it had to queue for the lock, the value
\* of connected its body found at line 65 ("up" or "down"), the connect()
\* invocations it made, its probe's answer, the last answer it got from
\* connect() and its result.
FreshCall == [queued |-> FALSE, entry |-> "none", nconn |-> 0,
              probed |-> "none", answer |-> NoAnswer, res |-> NoResult]

(* ------------------------------ Init ----------------------------------- *)

Init ==
    /\ client = None
    /\ connection_status =
           [connected |-> FALSE, last_error |-> None, last_connected |-> None]
    /\ last_connection_time = None
    /\ lock_locked = FALSE
    /\ lock_waiters = <<>>
    /\ pc = [c \in Callers |-> "idle"]
    /\ kpc = "sleep"
    /\ now = 1
    /\ call = [c \in Callers |-> FreshCall]
    /\ calls = 0
    /\ constructed = 0
    /\ connect_calls = 0
    /\ flawless = TRUE
    /\ phase = "serving"
    /\ klast = "none"
    /\ NoFetch
    /\ NoHandlers

(* ------------------- the code's decisions and updates ------------------ *)

\* Variant: the lock is never found taken.
CanAcquireNoLock == TRUE

\* asyncio.Lock.acquire() takes the lock without suspending when it is not
\* held and nobody is queued for it (line 56).
CanAcquire == ~lock_locked /\ lock_waiters = <<>>

\* Variant: a client is constructed by every call.
NeedsClientAlways == TRUE

\* Line 57: if client is None.
NeedsClient == client = None

\* Variant: a disconnected status does not make the caller connect.
ShouldConnectNever(st) == FALSE

\* Variant: connect whatever the status says.
ShouldConnectAlways(st) == TRUE

\* Line 65: if not connection_status["connected"].
ShouldConnect(st) == ~st.connected

\* Variant: the success branch forgets connected = True.
OnConnectOkNoFlag(st, t) ==
    [st EXCEPT !.last_connected = Some(Iso(t)), !.last_error = None]

\* Variant: the success branch leaves last_error as it was.
OnConnectOkKeepsError(st, t) ==
    [st EXCEPT !.connected = TRUE, !.last_connected = Some(Iso(t))]

\* Variant: the success branch forgets last_connected.
OnConnectOkNoStamp(st, t) ==
    [st EXCEPT !.connected = TRUE, !.last_error = None]

\* Lines 70-72: connect() returned check = True.
OnConnectOk(st, t) ==
    [st EXCEPT !.connected = TRUE,
               !.last_connected = Some(Iso(t)),
               !.last_error = None]

\* Lines 76-82: connect() returned check = False.  Line 79 raises inside
\* the try block, so the handler of line 80 catches that HTTPException and
\* line 82 stores str(e) over the reason stored by line 77.
OnConnectFail(st, reason) ==
    LET after77 == [st EXCEPT !.connected = FALSE, !.last_error = Some(reason)]
        e == StrHTTPException("503", <<"Failed to connect: ">> \o reason)
    IN  [after77 EXCEPT !.connected = FALSE, !.last_error = Some(e)]

\* Lines 80-82: connect() raised e.
OnConnectRaise(st, msg) ==
    [st EXCEPT !.connected = FALSE, !.last_error = Some(msg)]

\* The detail of the HTTPException of line 84 in the two cases above.
ConnectFailDetail(reason) ==
    <<"Connection error: ">>
        \o StrHTTPException("503", <<"Failed to connect: ">> \o reason)
ConnectRaiseDetail(msg) == <<"Connection error: ">> \o msg

\* Line 88: check_connect() returned False.
OnProbeFalse(st) == [st EXCEPT !.connected = FALSE]

\* Variant: the reconnect branch does not refresh last_connected.
OnReconnectOkStale(st, t) == [st EXCEPT !.connected = TRUE]

\* Lines 92-93: the reconnect succeeded.
OnReconnectOk(st, t) ==
    [st EXCEPT !.connected = TRUE, !.last_connected = Some(Iso(t))]

\* Variant: the reconnect branch records the rendered exception, as the
\* first connect branch does.
OnReconnectFailRendered(st, reason) ==
    [st EXCEPT !.last_error =
        Some(StrHTTPException("503", <<"Reconnection failed: ">> \o reason))]

\* Line 97: the reconnect failed.
OnReconnectFail(st, reason) == [st EXCEPT !.last_error = Some(reason)]

\* The detail of the HTTPException of line 98.
ReconnectFailDetail(reason) == <<"Reconnection failed: ">> \o reason

\* Variant: line 87 as an elif, skipped by a call that has just connected.
VerifyAfterConnectElif(st) == FALSE

\* Line 87, reached after the connect block of lines 65-84 (it is an if,
\* not an elif): the status that line 70 has just set is read again.
VerifyAfterConnect(st) == st.connected

\* Line 105: the keeper probes only while the status says connected.
KeeperShouldProbe(st) == st.connected

\* Variant: the keeper also records an error text.
KeeperMarkDownWithError(st) ==
    [st EXCEPT !.connected = FALSE, !.last_error = Some(<<"keeper">>)]

\* Lines 110 and 113: the keeper's only write.
KeeperMarkDown(st) == [st EXCEPT !.connected = FALSE]

\* Variant: the loop has no try/except, so a raising probe ends the task.
KeeperResumeUncaught(o) == IF o.kind = "raise" THEN "dead" ELSE "sleep"

\* Lines 104-115: whatever the probe did, the handler of line 111 keeps the
\* exception inside the iteration, which ends in the sleep of line 115.
KeeperResume(o) == "sleep"

\* The session has answered something other than success.
Spoil(o) == flawless /\ o.kind \in {"ok", "true"}

(* --------------------------- ensure_connection ------------------------- *)

InBody == {"connect", "probe", "reconnect"}

\* What the body finds in connection_status["connected"] at line 65.
Entry(st) == IF st.connected THEN "up" ELSE "down"
Holds(c) == pc[c] \in InBody

\* The records of the calls that have not ended (those of ended calls are
\* dropped).
Pending == [d \in Callers |-> IF pc[d] = "idle" THEN FreshCall ELSE call[d]]

\* Lines 57-68 and 87, run by caller c right after it got the lock, up to
\* its first await: construct the client if there is none, then await
\* connect() when the status says disconnected, check_connect() otherwise.
Body(c, rec) ==
    /\ client' = IF NeedsClient THEN Some(constructed + 1) ELSE client
    /\ constructed' = IF NeedsClient THEN constructed + 1 ELSE constructed
    /\ IF ShouldConnect(connection_status)
          THEN /\ pc' = [pc EXCEPT ![c] = "connect"]
               /\ connect_calls' = connect_calls + 1
               /\ call' = [Pending EXCEPT ![c] =
                              [rec EXCEPT !.entry = Entry(connection_status),
                                          !.nconn = 1]]
          ELSE /\ pc' = [pc EXCEPT ![c] = "probe"]
               /\ connect_calls' = connect_calls
               /\ call' = [Pending EXCEPT ![c] =
                              [rec EXCEPT !.entry = Entry(connection_status),
                                          !.probed = "pending"]]
    /\ UNCHANGED <<connection_status, last_connection_time, kpc, now, flawless,
                   phase, klast>>

\* Leaving the async with block (any way): Lock.release() clears _locked,
\* which wakes the first waiter.
Exit(c) ==
    /\ pc' = [pc EXCEPT ![c] = "idle"]
    /\ lock_locked' = FALSE
    /\ UNCHANGED lock_waiters

\* A task calls ensure_connection() and gets the lock at once (line 56).
CallFast(c) ==
    /\ pc[c] = "idle"
    /\ phase = "serving"
    /\ calls < MaxCalls
    /\ CanAcquire
    /\ calls' = calls + 1
    /\ lock_locked' = TRUE
    /\ UNCHANGED lock_waiters
    /\ Body(c, FreshCall)
    /\ UNCHANGED <<fvars, hvars>>

\* A task calls ensure_connection() and has to queue for the lock.
CallQueue(c) ==
    /\ pc[c] = "idle"
    /\ phase = "serving"
    /\ calls < MaxCalls
    /\ ~CanAcquire
    /\ calls' = calls + 1
    /\ lock_waiters' = Append(lock_waiters, c)
    /\ pc' = [pc EXCEPT ![c] = "wait"]
    /\ call' = [call EXCEPT ![c] = [FreshCall EXCEPT !.queued = TRUE]]
    /\ UNCHANGED <<client, connection_status, last_connection_time,
                   lock_locked, kpc, now, constructed, connect_calls, flawless,
                   phase, klast>>
    /\ UNCHANGED <<fvars, hvars>>

\* The first waiter, woken by release(), resumes in acquire() and enters
\* the body.
Wake(c) ==
    /\ pc[c] = "wait"
    /\ ~lock_locked
    /\ lock_waiters # <<>>
    /\ Head(lock_waiters) = c
    /\ lock_locked' = TRUE
    /\ lock_waiters' = Tail(lock_waiters)
    /\ UNCHANGED calls
    /\ Body(c, call[c])
    /\ UNCHANGED <<fvars, hvars>>

\* Line 68 resumes: await client.connect() is over with outcome o.
ConnectReturn(c, o) ==
    /\ pc[c] = "connect"
    /\ flawless' = Spoil(o)
    /\ CASE o.kind = "ok" ->
              \* lines 70-74, then line 87 awaits check_connect()
              /\ connection_status' = OnConnectOk(connection_status, now)
              /\ last_connection_time' = Some(now)
              /\ IF VerifyAfterConnect(connection_status')
                    THEN /\ pc' = [pc EXCEPT ![c] = "probe"]
                         /\ call' = [call EXCEPT ![c].answer = o,
                                                 ![c].probed = "pending"]
                         /\ UNCHANGED <<lock_locked, lock_waiters>>
                    ELSE /\ call' = [call EXCEPT ![c].answer = o,
                                                 ![c].res = Returned]
                         /\ Exit(c)
         [] o.kind = "fail" ->
              /\ connection_status' = OnConnectFail(connection_status, o.text)
              /\ UNCHANGED last_connection_time
              /\ call' = [call EXCEPT ![c].answer = o,
                             ![c].res = HTTP503(ConnectFailDetail(o.text))]
              /\ Exit(c)
         [] o.kind = "raise" ->
              /\ connection_status' = OnConnectRaise(connection_status, o.text)
              /\ UNCHANGED last_connection_time
              /\ call' = [call EXCEPT ![c].answer = o,
                             ![c].res = HTTP503(ConnectRaiseDetail(o.text))]
              /\ Exit(c)
    /\ UNCHANGED <<client, kpc, now, calls, constructed, connect_calls,
                   phase, klast>>
    /\ UNCHANGED <<fvars, hvars>>

\* Line 87 resumes: await client.check_connect() is over with outcome o.
ProbeReturn(c, o) ==
    /\ pc[c] = "probe"
    /\ flawless' = Spoil(o)
    /\ CASE o.kind = "true" ->
              /\ call' = [call EXCEPT ![c].probed = "true", ![c].res = Returned]
              /\ Exit(c)
              /\ UNCHANGED <<connection_status, connect_calls>>
         [] o.kind = "false" ->
              \* lines 88-90: mark down, await connect()
              /\ connection_status' = OnProbeFalse(connection_status)
              /\ connect_calls' = connect_calls + 1
              /\ pc' = [pc EXCEPT ![c] = "reconnect"]
              /\ call' = [call EXCEPT ![c].probed = "false",
                                      ![c].nconn = @ + 1]
              /\ UNCHANGED <<lock_locked, lock_waiters>>
         [] o.kind = "raise" ->
              \* outside any try: the exception leaves ensure_connection()
              /\ call' = [call EXCEPT ![c].probed = "raise",
                                      ![c].res = Raised(o.text)]
              /\ Exit(c)
              /\ UNCHANGED <<connection_status, connect_calls>>
    /\ UNCHANGED <<client, last_connection_time, kpc, now, calls, constructed,
                   phase, klast>>
    /\ UNCHANGED <<fvars, hvars>>

\* Line 90 resumes: the reconnecting await client.connect() is over.
ReconnectReturn(c, o) ==
    /\ pc[c] = "reconnect"
    /\ flawless' = Spoil(o)
    /\ CASE o.kind = "ok" ->
              /\ connection_status' = OnReconnectOk(connection_status, now)
              /\ last_connection_time' = Some(now)
              /\ call' = [call EXCEPT ![c].answer = o, ![c].res = Returned]
         [] o.kind = "fail" ->
              /\ connection_status' = OnReconnectFail(connection_status, o.text)
              /\ UNCHANGED last_connection_time
              /\ call' = [call EXCEPT ![c].answer = o,
                             ![c].res = HTTP503(ReconnectFailDetail(o.text))]
         [] o.kind = "raise" ->
              /\ UNCHANGED <<connection_status, last_connection_time>>
              /\ call' = [call EXCEPT ![c].answer = o,
                                      ![c].res = Raised(o.text)]
    /\ Exit(c)
    /\ UNCHANGED <<client, kpc, now, calls, constructed, connect_calls,
                   phase, klast>>
    /\ UNCHANGED <<fvars, hvars>>

\* Variant: the lock is taken by hand and not released when the task is
\* cancelled.
ExitOnCancelKeepsLock(c) ==
    /\ pc' = [pc EXCEPT ![c] = "idle"]
    /\ UNCHANGED <<lock_locked, lock_waiters>>

\* CancelledError raised at an await inside the body: it is no Exception,
\* so the handler of line 80 lets it pass, and async with releases the lock.
ExitOnCancel(c) == Exit(c)

\* The task running ensure_connection() is cancelled while suspended: in
\* acquire() (it leaves the queue), or at the await of line 68, 87 or 90.
Cancel(c) ==
    /\ pc[c] \in {"wait"} \cup InBody
    /\ IF pc[c] = "wait"
          THEN /\ lock_waiters' = SelectSeq(lock_waiters, LAMBDA w : w # c)
               /\ pc' = [pc EXCEPT ![c] = "idle"]
               /\ UNCHANGED lock_locked
          ELSE ExitOnCancel(c)
    /\ call' = [call EXCEPT ![c].res = Cancelled]
    /\ flawless' = FALSE
    /\ UNCHANGED <<client, connection_status, last_connection_time, kpc, now,
                   calls, constructed, connect_calls, phase, klast>>
    /\ UNCHANGED <<fvars, hvars>>

(* --------------------------- connection_keeper ------------------------- *)

\* Lines 104-106 after a sleep: when the status says connected, await
\* check_connect() on the client (a missing client counts as a failed
\* check, line 110); otherwise sleep again.
KeeperTick ==
    /\ kpc = "sleep"
    /\ klast' = "none"
    /\ IF KeeperShouldProbe(connection_status)
          THEN IF client # None
                  THEN /\ kpc' = "probe"
                       /\ UNCHANGED connection_status
                  ELSE /\ kpc' = "sleep"
                       /\ connection_status' = KeeperMarkDown(connection_status)
          ELSE UNCHANGED <<kpc, connection_status>>
    /\ UNCHANGED <<client, last_connection_time, lock_locked, lock_waiters,
                   pc, now, call, calls, constructed, connect_calls, flawless,
                   phase>>
    /\ UNCHANGED <<fvars, hvars>>

\* Line 106 resumes with outcome o; lines 107-115.
KeeperProbeReturn(o) ==
    /\ kpc = "probe"
    /\ kpc' = KeeperResume(o)
    /\ klast' = o.kind
    /\ flawless' = Spoil(o)
    /\ connection_status' =
           IF o.kind = "true" THEN connection_status
                              ELSE KeeperMarkDown(connection_status)
    /\ UNCHANGED <<client, last_connection_time, lock_locked, lock_waiters,
                   pc, now, call, calls, constructed, connect_calls, phase>>
    /\ UNCHANGED <<fvars, hvars>>

(* ------------------------------- clock --------------------------------- *)

\* Time passes.  The clock is read by ensure_connection() alone (lines 71
\* and 73), which runs only while the server is serving.
Tick ==
    /\ phase = "serving"
    /\ now < MaxClock
    /\ now' = now + 1
    /\ UNCHANGED <<client, connection_status, last_connection_time,
                   lock_locked, lock_waiters, pc, kpc, call, calls,
                   constructed, connect_calls, flawless, phase, klast>>
    /\ UNCHANGED <<fvars, hvars>>

(* ------------------------------ lifespan ------------------------------- *)

\* Lines 133-136: the server has stopped serving (no request is being
\* handled) and the lifespan's shutdown half runs: the client, if there is
\* one, is closed.  Nothing here touches the keeper task created at line
\* 123, of which no reference was kept.
Shutdown ==
    /\ phase = "serving"
    /\ \A c \in Callers : pc[c] = "idle"
    /\ phase' = "closed"
    /\ UNCHANGED <<client, connection_status, last_connection_time,
                   lock_locked, lock_waiters, pc, kpc, now, call, calls,
                   constructed, connect_calls, flawless, klast>>
    /\ UNCHANGED <<fvars, hvars>>

\* Line 435: uvicorn.run() returns; closing the event loop cancels the
\* tasks still pending on it, the keeper among them.
LoopStop ==
    /\ phase = "closed"
    /\ phase' = "stopped"
    /\ kpc' = "cancelled"
    /\ UNCHANGED <<client, connection_status, last_connection_time,
                   lock_locked, lock_waiters, pc, now, call, calls,
                   constructed, connect_calls, flawless, klast>>
    /\ UNCHANGED <<fvars, hvars>>

(* ----------------------- get_candles_progressive ----------------------- *)

\* Python's a % b for b # 0: the result takes the sign of b.
PyMod(a, b) == IF b > 0 THEN a % b ELSE -((-a) % (-b))

\* Variant: the timestamp is rounded up to the next multiple of the period.
AlignedEndRoundedUp(ts, req) ==
    (ts - PyMod(ts, req.period)) + req.period + req.offset

\* Line 266: the timestamp rounded down to a multiple of the period, moved
\* forward by the offset.
AlignedEnd(ts, req) == (ts - PyMod(ts, req.period)) + req.offset

\* Variant: the loop runs once more, for k = size as well.
InRangeInclusive(k, sz) == 0 <= k /\ k <= sz

\* Line 270: for i in range(size) runs its body for k iff 0 <= k < size.
InRange(k, sz) == 0 <= k /\ k < sz

\* Variant: the doubling fires on every iteration.
DoubleOffsetAlways(k, sz) == k >= 0

\* Line 280: the condition of the offset doubling.
DoubleOffset(k, sz) == k >= sz

\* Line 278: a returned list is appended when it is truthy.
Truthy(o) == o.kind = "list" /\ o.candles # <<>>

\* Variant: candles are told apart by their time alone.
KeyTimeOnly(d) == {<<"time", d.time>>}

\* Line 288: frozenset(d.items()), the key a candle is filed under.
Key(d) == {<<k, d[k]>> : k \in DOMAIN d}

\* dct[key] = d on a dict kept as a sequence of <<key, value>> pairs in
\* insertion order: a key already there keeps its place and takes the new
\* value.
DictSet(dct, k, d) ==
    IF \E n \in 1..Len(dct) : dct[n][1] = k
       THEN [n \in 1..Len(dct) |-> IF dct[n][1] = k THEN <<k, d>> ELSE dct[n]]
       ELSE Append(dct, <<k, d>>)

\* Line 288: {frozenset(d.items()): d for d in list_candles}.
RECURSIVE DictOf(_)
DictOf(lc) ==
    IF lc = <<>>
       THEN <<>>
       ELSE DictSet(DictOf(SubSeq(lc, 1, Len(lc) - 1)),
                    Key(lc[Len(lc)]), lc[Len(lc)])

\* Line 288: list(....values()).
UniqueCandles(lc) == [n \in 1..Len(DictOf(lc)) |-> DictOf(lc)[n][2]]

\* Variant: a failed retrieval answers with what was gathered so far.
OnGetCandlesRaisePartial(msg, lc) == Answer(UniqueCandles(lc))

\* Lines 297-299: an exception of client.get_candles() leaves the loop and
\* is turned into an HTTP 500.
OnGetCandlesRaise(msg, lc) == HTTP500(msg)

\* The top of the for loop at index k (line 270): inside the range the
\* next client.get_candles() is awaited (lines 271-277); past it the loop
\* is over and lines 288-295 answer.
Iterate(k, req, eft, lc) ==
    IF InRange(k, size')
       THEN /\ fpc' = "get_candles"
            /\ get_candles_args' =
                   Append(get_candles_args,
                          [end_from_time |-> eft, offset |-> req.offset,
                           period |-> req.period])
            /\ response' = NoResult
       ELSE /\ fpc' = "done"
            /\ UNCHANGED get_candles_args
            /\ response' = Answer(UniqueCandles(lc))

\* Lines 260-271: the handler starts on request req after
\* ensure_connection() has returned; get_timestamp_days_ago() gives ts.
\* With period 0 line 266 raises ZeroDivisionError, which line 297 catches.
FetchBegin(req, ts) ==
    /\ fpc = "idle"
    /\ phase = "serving"
    /\ request' = req
    /\ window' = req
    /\ size' = req.days * HoursPerDay
    /\ timestamp' = ts
    /\ i' = 0
    /\ list_candles' = <<>>
    /\ IF req.period = 0
          THEN /\ fpc' = "done"
               /\ response' = HTTP500(StrZeroDivisionError)
               /\ UNCHANGED <<end_from_time, get_candles_args>>
          ELSE /\ end_from_time' = AlignedEnd(ts, req)
               /\ Iterate(0, req, end_from_time', <<>>)
    /\ UNCHANGED <<received, cause>>
    /\ UNCHANGED <<cvars, hvars>>

\* Lines 271-285: await client.get_candles() is over with outcome o.  A
\* list or None goes on to the sleep of line 285; an exception leaves the
\* loop for the handler of line 297.
GetCandlesReturn(o) ==
    /\ fpc = "get_candles"
    /\ Len(received) + Len(o.candles) <= MaxCandles
    /\ IF o.kind = "raise"
          THEN /\ fpc' = "done"
               /\ cause' = Some(o.text)
               /\ response' = OnGetCandlesRaise(o.text, list_candles)
               /\ UNCHANGED <<request, end_from_time, list_candles, received>>
          ELSE /\ fpc' = "sleep"
               /\ list_candles' = IF Truthy(o) THEN list_candles \o o.candles
                                               ELSE list_candles
               /\ received' = received \o o.candles
               /\ request' = IF DoubleOffset(i, size)
                                THEN [request EXCEPT !.offset = @ * 2]
                                ELSE request
               /\ end_from_time' = end_from_time + request'.offset
               /\ UNCHANGED <<cause, response>>
    /\ UNCHANGED <<window, size, timestamp, i, get_candles_args>>
    /\ UNCHANGED <<cvars, hvars>>

\* Line 285 resumes: the sleep is over and the loop goes to its next
\* index.
SleepReturn ==
    /\ fpc = "sleep"
    /\ i' = i + 1
    /\ UNCHANGED size
    /\ Iterate(i + 1, request, end_from_time, list_candles)
    /\ UNCHANGED <<request, window, timestamp, end_from_time, list_candles,
                   received, cause>>
    /\ UNCHANGED <<cvars, hvars>>

(* -------------------- place_trade, get_payment_info -------------------- *)

\* Lines 373-377: the answer to a trade the session accepted.
TradeAnswer(info) ==
    [kind |-> "ok", status |-> "success", trade_id |-> info.id,
     details |-> info]

\* Lines 378-382: buy() returned a false status.  Line 379 raises the
\* HTTPException 400 inside the try block, so the handler of line 380
\* catches it and line 382 raises a 500 whose detail is str() of it.
OnBuyFalse ==
    LET e == TradeFailed400
    IN  HTTP500(StrHTTPException("400", e.detail))

\* Lines 380-382: buy() raised.
OnBuyRaise(msg) == HTTP500(msg)

\* Lines 393-397: the asset is not in the payment data.  Line 394 raises
\* the HTTPException 404 inside the try block; line 395 catches it and
\* line 397 raises a 500 whose detail is str() of it.
OnAssetMissing(asset) ==
    LET e == AssetNotFound404(asset)
    IN  HTTP500(StrHTTPException("404", e.detail))

\* Lines 365-371: POST /trade with body req, after ensure_connection() has
\* returned, up to await client.buy().
TradeBegin(req) ==
    /\ tpc = "idle"
    /\ phase = "serving"
    /\ tpc' = "buy"
    /\ trade_request' = req
    /\ UNCHANGED <<buy_result, trade_response, ppc, payment_asset,
                   payment_data, payment_response>>
    /\ UNCHANGED <<cvars, fvars>>

\* Lines 366-382: await client.buy() is over with outcome o.
BuyReturn(o) ==
    /\ tpc = "buy"
    /\ tpc' = "done"
    /\ buy_result' = o
    /\ trade_response' =
           CASE o.kind = "ok" -> TradeAnswer(o.info)
             [] o.kind = "false" -> OnBuyFalse
             [] o.kind = "raise" -> OnBuyRaise(o.text)
    /\ UNCHANGED <<trade_request, ppc, payment_asset, payment_data,
                   payment_response>>
    /\ UNCHANGED <<cvars, fvars>>

\* Lines 389-397: GET /payment/{asset}, after ensure_connection() has
\* returned; client.get_payment() gives data.  Nothing is awaited.
PaymentInfo(asset, data) ==
    /\ ppc = "idle"
    /\ phase = "serving"
    /\ ppc' = "done"
    /\ payment_asset' = asset
    /\ payment_data' = data
    /\ payment_response' =
           IF asset \in DOMAIN data
              THEN [kind |-> "ok", body |-> data[asset]]
              ELSE OnAssetMissing(asset)
    /\ UNCHANGED <<tpc, trade_request, buy_result, trade_response>>
    /\ UNCHANGED <<cvars, fvars>>

(* ---------------------------- specification ---------------------------- *)

Next ==
    \/ \E c \in Callers : CallFast(c)
    \/ \E c \in Callers : CallQueue(c)
    \/ \E c \in Callers : Wake(c)
    \/ \E c \in Callers, o \in ConnectOutcomes : ConnectReturn(c, o)
    \/ \E c \in Callers, o \in ProbeOutcomes : ProbeReturn(c, o)
    \/ \E c \in Callers, o \in ConnectOutcomes : ReconnectReturn(c, o)
    \/ \E c \in Callers : Cancel(c)
    \/ KeeperTick
    \/ \E o \in ProbeOutcomes : KeeperProbeReturn(o)
    \/ Tick
    \/ Shutdown
    \/ LoopStop

Spec == Init /\ [][Next]_vars

\* The server as line 259 leaves it when ensure_connection() has returned:
\* one client, connected by one call that has ended, the lock free.
Connected ==
    /\ client = Some(1)
    /\ connection_status =
           [connected |-> TRUE, last_error |-> None,
            last_connected |-> Some(Iso(1))]
    /\ last_connection_time = Some(1)
    /\ lock_locked = FALSE
    /\ lock_waiters = <<>>
    /\ pc = [c \in Callers |-> "idle"]
    /\ kpc = "sleep"
    /\ now = 1
    /\ call = [c \in Callers |->
                  IF c = 1
                     THEN [queued |-> FALSE, entry |-> "down", nconn |-> 1,
                           probed |-> "true",
                           answer |-> [kind |-> "ok", text |->
                                          <<"Websocket connected successfully">>],
                           res |-> Returned]
                     ELSE FreshCall]
    /\ calls = 1
    /\ constructed = 1
    /\ connect_calls = 1
    /\ flawless = TRUE
    /\ phase = "serving"
    /\ klast = "none"

\* One run of the get_candles_progressive() handler on a connected server.
InitFetch == Connected /\ NoFetch /\ NoHandlers

NextFetch ==
    \/ \E req \in Requests, ts \in Timestamps : FetchBegin(req, ts)
    \/ \E o \in GetCandlesOutcomes : GetCandlesReturn(o)
    \/ SleepReturn

SpecFetch == InitFetch /\ [][NextFetch]_vars

\* The place_trade() and get_payment_info() handlers on a connected server.
InitHandlers == Connected /\ NoFetch /\ NoHandlers

NextHandlers ==
    \/ \E req \in TradeRequests : TradeBegin(req)
    \/ \E o \in BuyOutcomes : BuyReturn(o)
    \/ \E asset \in Assets, data \in PaymentData : PaymentInfo(asset, data)

SpecHandlers == InitHandlers /\ [][NextHandlers]_vars

(* ============================== claims ================================= *)

Idle(c) == pc[c] = "idle"
Finished(c) == pc[c] = "idle" /\ call[c].res.kind # "none"

\* C1: at most one ensure_connection() caller is inside the locked body at
\* a time, so at most one connect() is in flight, and whoever is in the
\* body holds the lock: a caller queued behind it cannot start before it
\* has left the body with its status writes done.
C1_MutualExclusion ==
    /\ Cardinality({c \in Callers : Holds(c)}) <= 1
    /\ Cardinality({c \in Callers : pc[c] \in {"connect", "reconnect"}}) <= 1
    /\ (\E c \in Callers : Holds(c)) => lock_locked
    /\ \A c \in Callers : pc[c] = "wait" <=>
            \E n \in 1..Len(lock_waiters) : lock_waiters[n] = c

\* C1's case: one caller awaits connect() in the body while another is
\* queued for the lock.
C1_Witness ==
    \E c, d \in Callers :
        /\ c # d
        /\ pc[c] \in {"connect", "reconnect"}
        /\ pc[d] = "wait"

\* C2: as long as every connect() succeeds and every check_connect()
\* returns True, connect() is invoked once in total however many callers
\* run concurrently from the disconnected start, every call that has
\* ended has returned normally, and the status says connected from the
\* first return on.
C2_Coalescing ==
    flawless =>
        /\ connect_calls <= 1
        /\ \A c \in Callers :
               /\ call[c].res.kind \in {"none", "ok"}
               /\ call[c].res.kind = "ok" =>
                      connection_status.connected /\ connect_calls = 1

\* C2's case: every caller has made one call and none is left running (so,
\* nothing having failed or been cancelled, all have returned); the last
\* to return had queued for the lock and found the status connected.
C2_Witness ==
    /\ flawless
    /\ calls = NumCallers
    /\ \A c \in Callers : Idle(c)
    /\ \E c \in Callers :
           /\ call[c].queued
           /\ call[c].entry = "up"
           /\ call[c].res = Returned
    /\ connect_calls = 1
    /\ connection_status.connected

\* C3 (as claimed): every step that changes connection_status or
\* last_connection_time is taken by a task holding connection_lock, that
\* is, by a caller inside the body of ensure_connection().
C3_WritesUnderLock ==
    [][(connection_status' # connection_status
          \/ last_connection_time' # last_connection_time)
       => \E c \in Callers : Holds(c) /\ pc'[c] # pc[c]]_vars

\* C4: connected = True implies that last_connected and
\* last_connection_time are set.
C4_ConnectedHasStamp ==
    connection_status.connected =>
        /\ connection_status.last_connected # None
        /\ last_connection_time # None

\* C4's case: the status says connected after a reconnect.
C4_Witness ==
    /\ connection_status.connected
    /\ \E c \in Callers : Finished(c) /\ call[c].probed = "false"
                           /\ call[c].res = Returned

\* C5: the client is constructed at most once, not before the first call,
\* and before any connect() is invoked.
C5_SingleClient ==
    /\ constructed <= 1
    /\ calls = 0 => client = None
    /\ client = None <=> constructed = 0
    /\ connect_calls > 0 => client # None
    /\ \A c \in Callers : Holds(c) => client # None

\* C5's case: a caller that queued while the first caller was in the body
\* has entered the body itself, and there is still one client.
C5_Witness ==
    /\ constructed = 1
    /\ connect_calls >= 2
    /\ \E d \in Callers : call[d].queued /\ Holds(d)

\* The step is caller c getting answer kind k from the connect() it awaits.
ConnectAnswered(c, k) ==
    /\ pc[c] \in {"connect", "reconnect"}
    /\ pc'[c] # pc[c]
    /\ call'[c].answer.kind = k

\* C6 (as claimed): when a call that found the status disconnected gets
\* (False, r) from connect(), it ends with the 503 connection error,
\* connected is False and last_error is exactly r.
C6_FailRecordsReason ==
    [][\A c \in Callers :
          (pc[c] = "connect" /\ ConnectAnswered(c, "fail")) =>
              /\ pc'[c] = "idle"
              /\ call'[c].res.kind = "HTTPException"
              /\ ~connection_status'.connected
              /\ connection_status'.last_error = Some(call'[c].answer.text)
      ]_vars

\* C7: a call that found the status connected and whose probe returned
\* False marks the status disconnected and invokes connect() once; when
\* that connect() succeeds the call returns normally, having invoked
\* connect() once, with connected = True and last_connected rendered from
\* the clock at that moment.
C7_ProbeFalseReconnects ==
    [][\A c \in Callers :
          /\ (pc[c] = "probe" /\ call[c].entry = "up"
                 /\ call'[c].probed = "false") =>
                 /\ ~connection_status'.connected
                 /\ pc'[c] = "reconnect"
                 /\ call'[c].nconn = 1
                 /\ connect_calls' = connect_calls + 1
          /\ (call[c].entry = "up" /\ ConnectAnswered(c, "ok")) =>
                 /\ pc'[c] = "idle"
                 /\ call'[c].res = Returned
                 /\ call'[c].nconn = 1
                 /\ connect_calls' = connect_calls
                 /\ connection_status'.connected
                 /\ connection_status'.last_connected = Some(Iso(now))
                 /\ last_connection_time' = Some(now)
      ]_vars

\* C7's case: such a call has returned after its reconnect, at a later
\* clock value than the first connection.
C7_Witness ==
    \E c \in Callers :
        /\ Finished(c)
        /\ call[c].entry = "up"
        /\ call[c].probed = "false"
        /\ call[c].answer.kind = "ok"
        /\ call[c].res = Returned
        /\ connection_status.connected
        /\ connection_status.last_connected = Some(Iso(now))
        /\ now > 1

\* C8: a call that found the status connected, whose probe returned False
\* and whose reconnect returned (False, r) ends with the 503
\* "Reconnection failed: r" error, with connected = False and
\* last_error = r, having invoked connect() once.
C8_ReconnectFailure ==
    [][\A c \in Callers :
          (call[c].entry = "up" /\ ConnectAnswered(c, "fail")) =>
              /\ pc'[c] = "idle"
              /\ call'[c].res =
                     HTTP503(<<"Reconnection failed: ">> \o call'[c].answer.text)
              /\ ~connection_status'.connected
              /\ connection_status'.last_error = Some(call'[c].answer.text)
              /\ call'[c].nconn = 1
              /\ connect_calls' = connect_calls
      ]_vars

\* C8's case: such a call has ended, and the status holds the reason it
\* got.
C8_Witness ==
    \E c \in Callers :
        /\ Finished(c)
        /\ call[c].entry = "up"
        /\ call[c].probed = "false"
        /\ call[c].answer.kind = "fail"
        /\ call[c].nconn = 1
        /\ ~connection_status.connected
        /\ connection_status.last_error = Some(call[c].answer.text)

\* C9: a call that finds the status connected goes straight to the probe
\* without invoking connect(), and when the probe returns True it returns
\* normally; none of its steps changes connection_status,
\* last_connection_time or the client, or invokes connect().
C9_LiveCallChangesNothing ==
    [][\A c \in Callers :
          /\ (pc[c] \in {"idle", "wait"} /\ pc'[c] \in InBody
                 /\ connection_status.connected) =>
                 /\ pc'[c] = "probe"
                 /\ call'[c].nconn = 0
                 /\ UNCHANGED <<connection_status, last_connection_time,
                                client, connect_calls>>
          /\ (pc[c] = "probe" /\ call[c].entry = "up"
                 /\ call'[c].probed = "true") =>
                 /\ pc'[c] = "idle"
                 /\ call'[c].res = Returned
                 /\ call'[c].nconn = 0
                 /\ UNCHANGED <<connection_status, last_connection_time,
                                client, connect_calls>>
      ]_vars

\* C9's case: such a call has returned, after an earlier call connected.
C9_Witness ==
    /\ \E c \in Callers :
           /\ Finished(c)
           /\ call[c].entry = "up"
           /\ call[c].probed = "true"
           /\ call[c].nconn = 0
           /\ call[c].res = Returned
    /\ calls = 2
    /\ connection_status.connected
    /\ connect_calls = 1

\* A step of connection_keeper(): no caller moves, the clock stands and
\* the server stays in its phase.
KeeperStep == pc' = pc /\ now' = now /\ phase' = phase

\* C10: a keeper step never invokes connect(); it starts a probe only
\* when the status says connected; the only change it makes to the shared
\* state is connected := False.  Every connect() invocation is made by a
\* caller of ensure_connection() that is then awaiting it.
C10_KeeperNeverConnects ==
    [][/\ KeeperStep =>
            /\ connect_calls' = connect_calls
            /\ client' = client
            /\ last_connection_time' = last_connection_time
            /\ \/ connection_status' = connection_status
               \/ connection_status' =
                      [connection_status EXCEPT !.connected = FALSE]
            /\ (kpc = "sleep" /\ kpc' = "probe") =>
                   connection_status.connected
       /\ connect_calls' # connect_calls =>
            \E c \in Callers :
                /\ pc'[c] # pc[c]
                /\ pc'[c] \in {"connect", "reconnect"}
                /\ lock_locked'
      ]_vars

\* C10's case: every call so far has returned normally and yet the status
\* says disconnected: the keeper has marked it so.
C10_Witness ==
    /\ \A c \in Callers : Idle(c) /\ call[c].res.kind \in {"none", "ok"}
    /\ \E c \in Callers : call[c].res = Returned
    /\ kpc = "sleep"
    /\ ~connection_status.connected
    /\ connection_status.last_connected # None

\* C11: a keeper probe that returns False or raises makes the keeper set
\* connected = False and nothing else: no caller is disturbed, the loop is
\* back at its sleep, from where the next iteration can start.  The keeper
\* task never dies of an exception; it ends only by the cancellation that
\* comes with the end of the event loop.
C11_KeeperSurvivesFailure ==
    /\ [](kpc \in {"sleep", "probe", "cancelled"})
    /\ [](kpc = "cancelled" => phase = "stopped")
    /\ []((kpc = "sleep" /\ phase # "stopped") => ENABLED KeeperTick)
    /\ [][(kpc = "probe" /\ klast' \in {"false", "raise"}) =>
             /\ kpc' = "sleep"
             /\ ~connection_status'.connected
             /\ connection_status' =
                    [connection_status EXCEPT !.connected = FALSE]
             /\ UNCHANGED <<pc, call, lock_locked, lock_waiters, phase>>
         ]_vars

\* C11's case: the keeper's probe has raised, the status is marked
\* disconnected and the loop is asleep while the server keeps serving.
C11_Witness ==
    /\ klast = "raise"
    /\ kpc = "sleep"
    /\ ~connection_status.connected
    /\ phase = "serving"

\* C12 (as claimed): once the lifespan's shutdown has closed the client,
\* the keeper starts no probe on it.
C12_NoProbeAfterClose ==
    [][(phase # "serving" /\ client # None) =>
          ~(kpc = "sleep" /\ kpc' = "probe")]_vars

\* C13: the lock is held only while some caller is inside the body, so
\* every call that has ended, however it ended, has released it; and the
\* queue for the lock holds only tasks that are still waiting, so a free
\* lock can always be taken by the first of them or by a new caller.
C13_LockReleased ==
    /\ lock_locked => \E c \in Callers : Holds(c)
    /\ \A n \in 1..Len(lock_waiters) : pc[lock_waiters[n]] = "wait"
    /\ (~lock_locked /\ lock_waiters # <<>>) => ENABLED Wake(Head(lock_waiters))

\* C13's case: a call was cancelled inside the body while another caller
\* was queued; the lock is free for that caller.
C13_Witness ==
    \E c, d \in Callers :
        /\ c # d
        /\ Idle(c)
        /\ call[c].res = Cancelled
        /\ call[c].entry # "none"
        /\ pc[d] = "wait"
        /\ ~lock_locked

\* The handler has ended and every client.get_candles() it awaited returned.
FetchedAll == fpc = "done" /\ cause = None

\* A client.get_candles() call of the handler raised.
RetrievalFailed == cause # None

C15_OffsetPinned ==
    /\ \A n \in 1..Len(get_candles_args) :
           get_candles_args[n].offset = window.offset
    /\ request.offset = window.offset
    /\ fpc \in {"get_candles", "sleep"} => ~(i >= size)

\* All the calls of a one-day fetch were made, the last one with the
\* request's offset of 5, and the fetch has ended.
C15_Witness ==
    /\ fpc = "done"
    /\ response.kind = "ok"
    /\ window.offset = 5
    /\ Len(get_candles_args) = HoursPerDay
    /\ get_candles_args[HoursPerDay].offset = 5

\* C16: a successful answer lists exactly the distinct candles (compared on
\* all six fields) among those the retrievals returned, each once, and its
\* count is the number of entries.
C16_DedupByFullEquality ==
    response.kind = "ok" =>
        /\ {response.candles[n] : n \in 1..Len(response.candles)} =
               {received[n] : n \in 1..Len(received)}
        /\ \A n, m \in 1..Len(response.candles) :
               n # m => response.candles[n] # response.candles[m]
        /\ response.count = Len(response.candles)

\* The retrievals returned one candle twice and another that differs from
\* it in volume only; the answer has two entries.
C16_Witness ==
    /\ response.kind = "ok"
    /\ \E n, m \in 1..Len(received) : n # m /\ received[n] = received[m]
    /\ \E n, m \in 1..Len(received) :
           received[n] = Candle(1, 1) /\ received[m] = Candle(1, 2)
    /\ response.count = 2

\* C17: when the retrieval of iteration i raises, the handler ends there:
\* it was the last call, the answer is an error and carries no candle list.
C17_AllOrNothing ==
    /\ [](RetrievalFailed =>
             /\ fpc = "done"
             /\ 0 <= i /\ i < size
             /\ Len(get_candles_args) = i + 1
             /\ response.kind = "HTTPException"
             /\ "candles" \notin DOMAIN response)
    /\ [][RetrievalFailed => get_candles_args' = get_candles_args]_vars

\* The 13th call raised after earlier calls had returned candles.
C17_Witness ==
    /\ RetrievalFailed
    /\ i = 12
    /\ list_candles # <<>>
    /\ response.kind = "HTTPException"

\* C18 as stated: the error of a failed retrieval carries the zero-based
\* index of the failing iteration together with the cause.
C18_ErrorCarriesIndex ==
    RetrievalFailed =>
        /\ "iterationIndex" \in DOMAIN response
        /\ response.iterationIndex = i
        /\ cause = Some(response.detail)

\* C18, amended: the error of a failed retrieval is an HTTP 500 whose
\* detail is the text of the exception raised; it has no field for the
\* iteration.
C18_ErrorCarriesCauseOnly ==
    RetrievalFailed =>
        /\ DOMAIN response = {"kind", "code", "detail"}
        /\ response.kind = "HTTPException"
        /\ response.code = 500
        /\ cause = Some(response.detail)

\* The 13th call raised "timed out" and the handler answered with it.
C18_Witness ==
    /\ cause = Some(<<"timed out">>)
    /\ i = 12
    /\ response = HTTP500(<<"timed out">>)

\* C19 as stated: one call of ensure_connection() makes at most one
\* connect(); a call that found the status disconnected does not probe.
C19_AtMostOneConnect ==
    \A c \in Callers :
        /\ call[c].nconn <= 1
        /\ call[c].entry = "down" => call[c].probed = "none"

\* C19, amended: one call makes at most two connect()s.  A call that found
\* the status connected connects at most once, after a probe that answered
\* False.  A call that found it disconnected connects, on success goes on
\* to probe, and connects a second time when that probe answers False.
C19_AtMostTwoConnects ==
    \A c \in Callers :
        /\ call[c].nconn <= 2
        /\ call[c].entry = "up" =>
               /\ call[c].nconn <= 1
               /\ call[c].nconn = 1 => call[c].probed = "false"
        /\ call[c].nconn = 2 =>
               /\ call[c].entry = "down"
               /\ call[c].probed = "false"
        /\ (Finished(c) /\ call[c].entry = "down" /\ call[c].res = Returned) =>
               call[c].probed \in {"true", "false"}

\* A call that found the status disconnected connected, probed, connected
\* again and returned.
C19_Witness ==
    \E c \in Callers :
        /\ Finished(c)
        /\ call[c].entry = "down"
        /\ call[c].nconn = 2
        /\ call[c].res = Returned

C21_EndTimes ==
    window.period > 0 =>
        /\ \A n \in 1..Len(get_candles_args) :
               get_candles_args[n].end_from_time =
                   (timestamp - (timestamp % window.period))
                       + window.offset + (n - 1) * window.offset
        /\ window.offset > 0 =>
               \A n, m \in 1..Len(get_candles_args) :
                   n < m => get_candles_args[n].end_from_time
                                < get_candles_args[m].end_from_time

\* All 24 calls of a fetch from timestamp 7 with period 2 and offset 5 have
\* been made: the first with end time 11, the last with 126.
C21_Witness ==
    /\ fpc = "done"
    /\ timestamp = 7
    /\ window.period = 2
    /\ window.offset = 5
    /\ Len(get_candles_args) = 24
    /\ get_candles_args[1].end_from_time = 11
    /\ get_candles_args[24].end_from_time = 126

\* C22: when buy() returns a false status, POST /trade answers with the
\* 400 "Trade failed" the handler raised, unchanged; and GET
\* /payment/{asset} answers an unknown asset with the 404 it raised.
C22_ClientErrorsPassThrough ==
    /\ (tpc = "done" /\ buy_result.kind = "false") =>
           trade_response = TradeFailed400
    /\ (ppc = "done" /\ payment_asset \notin DOMAIN payment_data) =>
           payment_response = AssetNotFound404(payment_asset)

\* C23: in every reachable state a status that says connected carries no
\* last_error.
C23_ConnectedHasNoError ==
    connection_status.connected => connection_status.last_error = None

\* After another call had made a connect() of its own, a call found the
\* status disconnected, connected, found the probe False, reconnected and
\* returned: the status says connected and reports no error.
C23_Witness ==
    /\ connection_status.connected
    /\ connection_status.last_error = None
    /\ calls = 2
    /\ connect_calls = 3
    /\ \E c \in Callers :
           /\ Finished(c)
           /\ call[c].nconn = 2
           /\ call[c].res = Returned

\* C24: whenever a call of ensure_connection() ends with an error other
\* than cancellation, the status says disconnected as the call exits.
C24_FailedCallLeavesDisconnected ==
    [][\A c \in Callers :
           (/\ pc[c] \in InBody
            /\ pc'[c] = "idle"
            /\ call'[c].res.kind \in {"HTTPException", "Exception"})
           => ~connection_status'.connected
      ]_vars

\* C25: the status says connected at the moment a call of
\* ensure_connection() returns normally, however the keeper's probes
\* interleave with it.
C25_ReturnsConnected ==
    [][\A c \in Callers :
           (/\ pc[c] \in InBody
            /\ pc'[c] = "idle"
            /\ call'[c].res = Returned)
           => connection_status'.connected
      ]_vars

====
